---- MODULE Spec2Model ----
(***************************************************************************)
(* Model of generic_value_logger_1.3.py: a Streamlit script that keeps a   *)
(* working DataFrame in the session state, mirrors it to a Google Sheets   *)
(* worksheet, sorts it for display and writes editor results back.         *)
(*                                                                         *)
(* Text is a sequence of character codes (ASCII), so that text order and   *)
(* numeric order differ as they do in Python ("10" < "9", 9 < 10).         *)
(* Column names: timestamp = 日時, category = カテゴリ, item = 項目,        *)
(* value = 値, unit = 単位, note = 補足.                                    *)
(***************************************************************************)
EXTENDS Integers, Sequences, FiniteSets, TLC

VARIABLES gc, worksheet, sheet, df, last_saved_df, sort_settings, op, runs, startup,
          sortIn, sortCfg, sortOut

vars == <<gc, worksheet, sheet, df, last_saved_df, sort_settings, op, runs, startup,
          sortIn, sortCfg, sortOut>>

sortVars == <<sortIn, sortCfg, sortOut>>

(* ------------------------------ bounds --------------------------------- *)
MaxRows == 2

MaxRuns == 3

MaxSortRows == 2

(* ------------------------------- text ---------------------------------- *)
Range(f) == {f[i] : i \in DOMAIN f}

IsDigit(ch) == ch >= 48 /\ ch <= 57

AllDigits(s) == Len(s) > 0 /\ \A i \in 1..Len(s) : IsDigit(s[i])

RECURSIVE StrToNat(_)
StrToNat(s) ==
  IF s = <<>> THEN 0
  ELSE 10 * StrToNat(SubSeq(s, 1, Len(s) - 1)) + (s[Len(s)] - 48)

RECURSIVE NatToStr(_)
NatToStr(n) ==
  IF n < 10 THEN <<48 + n>>
  ELSE NatToStr(n \div 10) \o <<48 + (n % 10)>>

RECURSIVE LexLess(_, _)
LexLess(a, b) ==
  IF b = <<>> THEN FALSE
  ELSE IF a = <<>> THEN TRUE
  ELSE IF Head(a) # Head(b) THEN Head(a) < Head(b)
  ELSE LexLess(Tail(a), Tail(b))

(* ------------------------------- cells --------------------------------- *)
NoneCell == [t |-> "none", s |-> <<>>, n |-> 0]

Str(s) == [t |-> "str", s |-> s, n |-> 0]

Num(n) == [t |-> "num", s |-> <<>>, n |-> n]

EmptyStr == Str(<<>>)

FillNa(c) == IF c.t = "none" THEN EmptyStr ELSE c

AsTypeStr(c) ==
  IF c.t = "num" THEN NatToStr(c.n)
  ELSE IF c.t = "str" THEN c.s
  ELSE <<78, 111, 110, 101>>

Numericise(s) == IF AllDigits(s) THEN Num(StrToNat(s)) ELSE Str(s)

(* ---------------------------- sort keys -------------------------------- *)
NullKey == [null |-> TRUE, n |-> 0, s |-> <<>>]

NumKey(n) == [null |-> FALSE, n |-> n, s |-> <<>>]

TextKey(s) == [null |-> FALSE, n |-> 0, s |-> s]

IsTimestampText(s) ==
  Len(s) = 3 /\ IsDigit(s[1]) /\ s[2] = 58 /\ IsDigit(s[3])

ToDatetime(c) ==
  IF c.t = "num" THEN NumKey(c.n)
  ELSE IF c.t = "str" /\ IsTimestampText(c.s)
       THEN NumKey(60 * (c.s[1] - 48) + (c.s[3] - 48))
       ELSE NullKey

ToNumeric(c) ==
  IF c.t = "num" THEN NumKey(c.n)
  ELSE IF c.t = "str" /\ AllDigits(c.s) THEN NumKey(StrToNat(c.s))
       ELSE NullKey

KeyLess(a, b) == a.n < b.n \/ (a.n = b.n /\ LexLess(a.s, b.s))

(* ------------------------------ schema --------------------------------- *)
COLUMNS == <<"timestamp", "category", "item", "value", "unit", "note">>

NoKey == "None"

(* Variant: the value column compared as text.                               *)
mk_sort_columns_text(row, colname) ==
  LET c == FillNa(row.c[colname]) IN
  IF colname = "timestamp" THEN ToDatetime(c)
  ELSE TextKey(AsTypeStr(c))

_mk_sort_columns(row, colname) ==
  LET c == FillNa(row.c[colname]) IN
  IF colname = "timestamp" THEN ToDatetime(c)
  ELSE IF colname = "value" THEN ToNumeric(c)
  ELSE TextKey(AsTypeStr(c))

(* Variant: NaN/NaT first (na_position="first").                            *)
KeyBefore_nafirst(a, b, asc) ==
  IF b.null THEN FALSE
  ELSE IF a.null THEN TRUE
  ELSE IF asc THEN KeyLess(a, b) ELSE KeyLess(b, a)

(* One key of sort_values: NaN/NaT go last whatever the direction.          *)
KeyBefore(a, b, asc) ==
  IF a.null THEN FALSE
  ELSE IF b.null THEN TRUE
  ELSE IF asc THEN KeyLess(a, b) ELSE KeyLess(b, a)

KeyTie(a, b) == (a.null /\ b.null) \/ (~a.null /\ ~b.null /\ a.n = b.n /\ a.s = b.s)

(* keys: sequence of [col, asc]; strict lexicographic "x sorts before y".   *)
RECURSIVE RowBefore(_, _, _)
RowBefore(x, y, keys) ==
  IF keys = <<>> THEN FALSE
  ELSE LET kx == _mk_sort_columns(x, Head(keys).col)
           ky == _mk_sort_columns(y, Head(keys).col)
       IN IF KeyBefore(kx, ky, Head(keys).asc) THEN TRUE
          ELSE IF KeyTie(kx, ky) THEN RowBefore(x, y, Tail(keys))
          ELSE FALSE

(* Variant: an insertion that places a record before the records it ties   *)
(* with (an unstable sort).                                                 *)
RECURSIVE InsertUnstable(_, _, _)
InsertUnstable(x, sorted, keys) ==
  IF sorted = <<>> THEN <<x>>
  ELSE IF ~RowBefore(Head(sorted), x, keys) THEN <<x>> \o sorted
  ELSE <<Head(sorted)>> \o InsertUnstable(x, Tail(sorted), keys)

RECURSIVE InsertStable(_, _, _)
InsertStable(x, sorted, keys) ==
  IF sorted = <<>> THEN <<x>>
  ELSE IF RowBefore(x, Head(sorted), keys) THEN <<x>> \o sorted
  ELSE <<Head(sorted)>> \o InsertStable(x, Tail(sorted), keys)

RECURSIVE sort_values(_, _)
sort_values(rows, keys) ==
  IF rows = <<>> THEN <<>>
  ELSE InsertStable(rows[Len(rows)], sort_values(SubSeq(rows, 1, Len(rows) - 1), keys), keys)

ActiveKeys(columns, sort1, asc1, sort2, asc2) ==
  (IF sort1 # NoKey /\ sort1 \in Range(columns)
     THEN <<[col |-> sort1, asc |-> asc1]>> ELSE <<>>)
  \o
  (IF sort2 # NoKey /\ sort2 \in Range(columns) /\ sort2 # sort1
     THEN <<[col |-> sort2, asc |-> asc2]>> ELSE <<>>)

_apply_sort(frame, sort1, asc1, sort2, asc2) ==
  LET keys == ActiveKeys(frame.columns, sort1, asc1, sort2, asc2) IN
  IF keys # <<>>
    THEN [columns |-> frame.columns, rows |-> sort_values(frame.rows, keys)]
    ELSE frame

(* Variant: out = df instead of out = df.copy(): the helper columns are      *)
(* written into the caller's frame.                                         *)
apply_sort_input_aliased(frame, sort1, asc1, sort2, asc2) ==
  LET keys == ActiveKeys(frame.columns, sort1, asc1, sort2, asc2)
      KeyCell(k, col) ==
        IF k.null THEN NoneCell
        ELSE IF col \in {"timestamp", "value"} THEN Num(k.n) ELSE Str(k.s)
      Helper(j) == IF j = 1 /\ sort1 # NoKey /\ sort1 \in Range(frame.columns)
                     THEN "_sort1" ELSE "_sort2"
      helpers == [j \in DOMAIN keys |-> Helper(j)]
      KeyAt(name) == CHOOSE j \in DOMAIN keys : helpers[j] = name
  IN [columns |-> frame.columns \o helpers,
      rows |-> [i \in DOMAIN frame.rows |->
                  [idx |-> frame.rows[i].idx,
                   c |-> [name \in Range(frame.columns) \cup Range(helpers) |->
                            IF name \in Range(frame.columns) THEN frame.rows[i].c[name]
                            ELSE KeyCell(_mk_sort_columns(frame.rows[i], keys[KeyAt(name)].col),
                                         keys[KeyAt(name)].col)]]]]

(* The frame passed to _apply_sort as the call leaves it: out = df.copy()   *)
(* keeps the helper columns and the sort away from the caller's frame.      *)
apply_sort_input(frame, sort1, asc1, sort2, asc2) == frame

(* ----------------------------- DataFrames ------------------------------ *)
(* A frame is [columns, rows]; a row is [idx, c]: its index label and its   *)
(* cells by column name.                                                    *)
EmptyFrame == [columns |-> COLUMNS, rows |-> <<>>]

Labels(frame) == {frame.rows[i].idx : i \in DOMAIN frame.rows}

Cells(frame) == [i \in DOMAIN frame.rows |-> frame.rows[i].c]

(* ws.get_all_records(): one dict per data row, keyed by the header row,    *)
(* numeric-looking cells converted to numbers.                              *)
get_all_records(sh) ==
  [i \in DOMAIN sh.rows |->
     [name \in Range(sh.header) |->
        LET pos == CHOOSE j \in DOMAIN sh.header : sh.header[j] = name
        IN IF pos <= Len(sh.rows[i]) THEN Numericise(sh.rows[i][pos]) ELSE EmptyStr]]

(* pd.DataFrame(data) then the header completion of fetch_sheet_df.         *)
FrameOfRecords(data, header) ==
  [columns |-> header,
   rows |-> [i \in DOMAIN data |-> [idx |-> i - 1, c |-> data[i]]]]

PadMissing(frame) ==
  LET InFrame(name) == name \in Range(frame.columns)
      Missing(name) == name \notin Range(frame.columns)
  IN [columns |-> frame.columns \o SelectSeq(COLUMNS, Missing),
      rows |-> [i \in DOMAIN frame.rows |->
                  [idx |-> frame.rows[i].idx,
                   c |-> [name \in Range(frame.columns) \cup Range(COLUMNS) |->
                            IF InFrame(name) THEN frame.rows[i].c[name] ELSE EmptyStr]]]]

(* Variant: fetch_sheet_df without df = df[COLUMNS].                        *)
SelectColumns_skip(frame) == frame

SelectColumns(frame) ==
  [columns |-> COLUMNS,
   rows |-> [i \in DOMAIN frame.rows |->
               [idx |-> frame.rows[i].idx,
                c |-> [name \in Range(COLUMNS) |-> frame.rows[i].c[name]]]]]

(* Variant: a failed read that still hands back the rows it had parsed.     *)
fetch_sheet_df_partial(client, readOk, sh) ==
  IF ~client THEN [ws |-> FALSE, df |-> EmptyFrame]
  ELSE LET data == get_all_records(sh) IN
       IF data = <<>> THEN [ws |-> readOk, df |-> EmptyFrame]
       ELSE [ws |-> readOk, df |-> SelectColumns(PadMissing(FrameOfRecords(data, sh.header)))]

(* fetch_sheet_df: <<worksheet handle or None, DataFrame>>.                  *)
fetch_sheet_df(client, readOk, sh) ==
  IF ~client THEN [ws |-> FALSE, df |-> EmptyFrame]
  ELSE IF ~readOk THEN [ws |-> FALSE, df |-> EmptyFrame]
  ELSE LET data == get_all_records(sh) IN
       IF data = <<>> THEN [ws |-> TRUE, df |-> EmptyFrame]
       ELSE [ws |-> TRUE, df |-> SelectColumns(PadMissing(FrameOfRecords(data, sh.header)))]

(* Variant: pd.concat([df, pd.DataFrame([new_row])], ignore_index=True)     *)
concat_back(new_row, frame) ==
  LET NotNew(name) == name \notin Range(COLUMNS)
      cols == COLUMNS \o SelectSeq(frame.columns, NotNew)
      Wide(c) == [name \in Range(cols) |-> IF name \in DOMAIN c THEN c[name] ELSE NoneCell]
      all == Cells(frame) \o <<new_row>>
  IN [columns |-> cols,
      rows |-> [i \in DOMAIN all |-> [idx |-> i - 1, c |-> Wide(all[i])]]]

(* pd.concat([pd.DataFrame([new_row]), df], ignore_index=True)              *)
concat_front(new_row, frame) ==
  LET NotNew(name) == name \notin Range(COLUMNS)
      cols == COLUMNS \o SelectSeq(frame.columns, NotNew)
      Wide(c) == [name \in Range(cols) |-> IF name \in DOMAIN c THEN c[name] ELSE NoneCell]
      all == <<new_row>> \o Cells(frame)
  IN [columns |-> cols,
      rows |-> [i \in DOMAIN all |-> [idx |-> i - 1, c |-> Wide(all[i])]]]

(* edited_df.sort_index(): rows by ascending index label.                   *)
RECURSIVE InsertByIndex(_, _)
InsertByIndex(x, sorted) ==
  IF sorted = <<>> THEN <<x>>
  ELSE IF x.idx < Head(sorted).idx THEN <<x>> \o sorted
  ELSE <<Head(sorted)>> \o InsertByIndex(x, Tail(sorted))

RECURSIVE SortRowsByIndex(_)
SortRowsByIndex(rows) ==
  IF rows = <<>> THEN <<>>
  ELSE InsertByIndex(rows[Len(rows)], SortRowsByIndex(SubSeq(rows, 1, Len(rows) - 1)))

sort_index(frame) == [columns |-> frame.columns, rows |-> SortRowsByIndex(frame.rows)]

(* Variant: always back to index order.                                     *)
reconcile_always_index(edited, save_in_sorted_order) == sort_index(edited)

(* The two branches of save_edits on save_in_sorted_order.                  *)
reconcile(edited, save_in_sorted_order) ==
  IF save_in_sorted_order THEN edited ELSE sort_index(edited)

(* Variant: df[COLUMNS].astype(str) without fillna("").                     *)
sheet_values_nofill(frame) ==
  [header |-> COLUMNS,
   rows |-> [i \in DOMAIN frame.rows |->
               [j \in DOMAIN COLUMNS |-> AsTypeStr(frame.rows[i].c[COLUMNS[j]])]]]

(* [COLUMNS] + df[COLUMNS].fillna("").astype(str).values.tolist()           *)
sheet_values(frame) ==
  [header |-> COLUMNS,
   rows |-> [i \in DOMAIN frame.rows |->
               [j \in DOMAIN COLUMNS |-> AsTypeStr(FillNa(frame.rows[i].c[COLUMNS[j]]))]]]

HasSchemaColumns(frame) == Range(COLUMNS) \subseteq Range(frame.columns)

(* worksheet.insert_row(values, index=2)                                    *)
insert_row(sh, values, index) ==
  [header |-> sh.header,
   rows |-> SubSeq(sh.rows, 1, index - 2) \o <<values>> \o SubSeq(sh.rows, index - 1, Len(sh.rows))]

ClearedSheet == [header |-> <<>>, rows |-> <<>>]

(* ------------------------- st.data_editor ------------------------------- *)
(* The editor returns the displayed frame with cell edits applied, added    *)
(* rows appended under fresh index labels and deleted rows dropped.  The    *)
(* script does not fix whether the library applies deletions before or      *)
(* after additions, so either order can occur (deletions_first).            *)
NextLabel(frame) ==
  IF frame.rows = <<>> THEN 0
  ELSE (CHOOSE m \in Labels(frame) : \A l \in Labels(frame) : l <= m) + 1

ApplyCellEdit(frame, e) ==
  IF e.pos \in DOMAIN frame.rows /\ e.col \in Range(frame.columns)
    THEN [frame EXCEPT !.rows[e.pos].c[e.col] = e.cell]
    ELSE frame

ApplyRowAddition(frame, added) ==
  IF added = <<>> THEN frame
  ELSE [frame EXCEPT !.rows = frame.rows \o
          <<[idx |-> NextLabel(frame),
             c |-> [name \in Range(frame.columns) |->
                      IF name \in DOMAIN added[1] THEN added[1][name] ELSE NoneCell]]>>]

ApplyRowDeletions(frame, deleted) ==
  LET Kept(p) == p \notin deleted
      kept == SelectSeq([p \in DOMAIN frame.rows |-> p], Kept)
  IN [frame EXCEPT !.rows = [k \in DOMAIN kept |-> frame.rows[kept[k]]]]

data_editor(display_df, edits) ==
  LET cells == ApplyCellEdit(display_df, edits.cell)
  IN IF edits.deletions_first
       THEN ApplyRowAddition(ApplyRowDeletions(cells, edits.deleted), edits.added)
       ELSE ApplyRowDeletions(ApplyRowAddition(cells, edits.added), edits.deleted)

(* Index labels of the rows the editor appended to the displayed frame.     *)
AddedLabels(edited, edits) ==
  IF edits.added = <<>> THEN {} ELSE {edited.rows[Len(edited.rows)].idx}

(* ------------------------------ handlers ------------------------------- *)
DefaultSortSettings ==
  [sort1 |-> "timestamp", asc1 |-> FALSE, sort2 |-> NoKey, asc2 |-> TRUE,
   save_in_sorted_order |-> TRUE]

ClearedSortSettings ==
  [sort1 |-> NoKey, asc1 |-> TRUE, sort2 |-> NoKey, asc2 |-> TRUE,
   save_in_sorted_order |-> TRUE]

display_df(frame, ss) == _apply_sort(frame, ss.sort1, ss.asc1, ss.sort2, ss.asc2)

(* st.session_state.df after the display_df assignment of a run.            *)
rendered_df(frame, ss) == apply_sort_input(frame, ss.sort1, ss.asc1, ss.sort2, ss.asc2)

(* Variant: last_saved_df refreshed outside the try block.                  *)
submitted_create_eager(frame, ws, sh, last, new_row, insertOk, ended) ==
  LET newdf == concat_front(new_row, frame)
      values == [j \in DOMAIN COLUMNS |-> new_row[COLUMNS[j]].s]
  IN IF ws
       THEN IF insertOk
              THEN [df |-> newdf, sheet |-> insert_row(sh, values, 2), last |-> newdf,
                    remote |-> "ok", index |-> 2, raised |-> FALSE, ended |-> ended]
              ELSE [df |-> newdf, sheet |-> sh, last |-> newdf,
                    remote |-> "insert_failed", index |-> 2, raised |-> FALSE,
                    ended |-> FALSE]
       ELSE [df |-> newdf, sheet |-> sh, last |-> last,
             remote |-> "skipped", index |-> 0, raised |-> FALSE, ended |-> FALSE]

(* if submitted_create: ... ; insertOk says whether insert_row returns,     *)
(* ended whether the script runner ends the run inside st.success (a rerun  *)
(* or stop request is served there, by an exception that `except Exception` *)
(* does not catch), which skips the last_saved_df assignment after it.      *)
submitted_create(frame, ws, sh, last, new_row, insertOk, ended) ==
  LET newdf == concat_front(new_row, frame)
      values == [j \in DOMAIN COLUMNS |-> new_row[COLUMNS[j]].s]
  IN IF ws
       THEN IF insertOk
              THEN [df |-> newdf, sheet |-> insert_row(sh, values, 2),
                    last |-> IF ended THEN last ELSE newdf,
                    remote |-> "ok", index |-> 2, raised |-> FALSE, ended |-> ended]
              ELSE [df |-> newdf, sheet |-> sh, last |-> last,
                    remote |-> "insert_failed", index |-> 2, raised |-> FALSE,
                    ended |-> FALSE]
       ELSE [df |-> newdf, sheet |-> sh, last |-> last,
             remote |-> "skipped", index |-> 0, raised |-> FALSE, ended |-> FALSE]

(* if save_edits: ... up to and including worksheet.clear(); clearOk says   *)
(* whether worksheet.clear() returns.  After a clear that returned the      *)
(* sheet is empty and the update is still to be made ("update_pending").    *)
save_edits(edited, ss, ws, sh, last, clearOk) ==
  LET newdf == reconcile(edited, ss.save_in_sorted_order)
  IN IF ws
       THEN IF ~clearOk
              THEN [df |-> newdf, sheet |-> sh, last |-> last,
                    remote |-> "clear_failed", raised |-> FALSE]
              ELSE [df |-> newdf, sheet |-> ClearedSheet, last |-> last,
                    remote |-> "update_pending", raised |-> FALSE]
       ELSE [df |-> newdf, sheet |-> sh, last |-> last,
             remote |-> "skipped", raised |-> FALSE]

(* The rest of the save handler: values, worksheet.update(values),          *)
(* st.success, last_saved_df.  updateOk says whether the update returns,    *)
(* ended whether the script runner ends the run inside st.success.          *)
save_edits_update(frame, sh, last, updateOk, ended) ==
  IF ~HasSchemaColumns(frame) \/ ~updateOk
    THEN [sheet |-> sh, last |-> last, remote |-> "update_failed", raised |-> FALSE,
          ended |-> FALSE]
    ELSE [sheet |-> sheet_values(frame), last |-> IF ended THEN last ELSE frame,
          remote |-> "ok", raised |-> FALSE, ended |-> ended]

(* ------------------------------- inputs -------------------------------- *)
TS1 == <<48, 58, 49>>

TS2 == <<48, 58, 50>>

TS3 == <<48, 58, 51>>

TXT9 == <<57>>

TXT10 == <<49, 48>>

TXTA == <<97>>

TXTX == <<120>>

HeaderFull == COLUMNS

HeaderShort == <<"value", "timestamp", "category">>

HeaderExtra == <<"memo", "timestamp", "category", "item", "value", "unit", "note">>

RawRow(header, ts, val) ==
  [j \in DOMAIN header |->
     IF header[j] = "timestamp" THEN ts
     ELSE IF header[j] = "value" THEN val
     ELSE IF header[j] = "category" THEN TXTA
     ELSE IF header[j] = "memo" THEN TXTX
     ELSE <<>>]

InitialRows(header) ==
  {rows \in {<<>>,
             <<RawRow(header, TS1, TXT9)>>,
             <<RawRow(header, TS1, TXT9), RawRow(header, TS2, TXT10)>>} :
     Len(rows) <= MaxRows}

LoadedRows(header) == {<<RawRow(header, TS1, TXT9), RawRow(header, TS2, TXT10)>>}

InitialSheets ==
  {[header |-> HeaderFull, rows |-> r] : r \in InitialRows(HeaderFull)}
  \cup {[header |-> HeaderShort, rows |-> r] : r \in LoadedRows(HeaderShort)}
  \cup {[header |-> HeaderExtra, rows |-> r] : r \in LoadedRows(HeaderExtra)}

SubmitRows ==
  {[timestamp |-> Str(TS3), category |-> Str(TXTA), item |-> EmptyStr,
    value |-> Str(v), unit |-> EmptyStr, note |-> EmptyStr] : v \in {TXT10}}

SortChoices ==
  {[sort1 |-> NoKey, asc1 |-> TRUE, sort2 |-> NoKey, asc2 |-> TRUE,
    save_in_sorted_order |-> FALSE],
   [sort1 |-> "value", asc1 |-> FALSE, sort2 |-> NoKey, asc2 |-> TRUE,
    save_in_sorted_order |-> TRUE],
   [sort1 |-> "timestamp", asc1 |-> TRUE, sort2 |-> "value", asc2 |-> FALSE,
    save_in_sorted_order |-> FALSE]}

NoCellEdit == [pos |-> 0, col |-> "value", cell |-> NoneCell]

CellEdits(shown) ==
  {NoCellEdit}
  \cup {[pos |-> 1, col |-> "value", cell |-> Num(3)] : x \in {1} \cap DOMAIN shown.rows}

AddedRows(shown) ==
  {<<>>} \cup {<<[value |-> Num(5)]>> : x \in {1 : y \in {z \in {1} : Len(shown.rows) < MaxRows}}}

DeletedRows(shown) ==
  {{}} \cup {{1} : x \in {1} \cap DOMAIN shown.rows}

(* Either application order of the editor; the two only differ when rows   *)
(* are both added and deleted.                                              *)
EditOrders(a, d) == IF a # <<>> /\ d # {} THEN BOOLEAN ELSE {FALSE}

EditChoices(shown) ==
  {ed \in [cell : CellEdits(shown), added : AddedRows(shown),
           deleted : DeletedRows(shown), deletions_first : BOOLEAN] :
     /\ ed.cell = NoCellEdit \/ ed.deleted = {}
     /\ ed.deletions_first \in EditOrders(ed.added, ed.deleted)}

NoOp == [name |-> "init", remote |-> "none", index |-> 0, raised |-> FALSE,
         edited |-> EmptyFrame, added |-> {}, ended |-> FALSE]

(* ---------------------------- session spec ----------------------------- *)
(* Outcomes of the remote calls of one run: the read of fetch_sheet_df is   *)
(* only made with a client, a write only with a worksheet handle.           *)
ReadOutcomes == IF gc THEN BOOLEAN ELSE {FALSE}

WriteOutcomes(called) == IF called THEN BOOLEAN ELSE {TRUE}

(* st.success is only reached after a write that returned; there the script *)
(* runner may end the run.                                                  *)
StopOutcomes(reached) == IF reached THEN BOOLEAN ELSE {FALSE}

(* No run of the script is between worksheet.clear() and worksheet.update.  *)
Idle == op.remote # "update_pending"

Init ==
  /\ gc \in BOOLEAN
  /\ sheet \in InitialSheets
  /\ \E readOk \in BOOLEAN :
       LET f == fetch_sheet_df(gc, readOk, sheet) IN
       /\ worksheet = f.ws
       /\ startup = f.ws
       /\ df = rendered_df(f.df, DefaultSortSettings)
       /\ last_saved_df = f.df
  /\ sort_settings = DefaultSortSettings
  /\ op = NoOp
  /\ runs = 0
  /\ sortIn = EmptyFrame
  /\ sortCfg = ClearedSortSettings
  /\ sortOut = EmptyFrame

(* A submit is taken from any table of up to MaxRows rows, so that it also  *)
(* happens with several records already in the table.                       *)
Submit ==
  /\ Idle
  /\ runs < MaxRuns
  /\ Len(df.rows) <= MaxRows
  /\ \E readOk \in ReadOutcomes, new_row \in SubmitRows :
     \E insertOk \in WriteOutcomes(fetch_sheet_df(gc, readOk, sheet).ws) :
     \E ended \in StopOutcomes(fetch_sheet_df(gc, readOk, sheet).ws /\ insertOk) :
       LET ws == fetch_sheet_df(gc, readOk, sheet).ws
           r == submitted_create(df, ws, sheet, last_saved_df, new_row, insertOk, ended)
       IN /\ worksheet' = ws
          /\ df' = IF r.ended THEN r.df ELSE rendered_df(r.df, sort_settings)
          /\ sheet' = r.sheet
          /\ last_saved_df' = r.last
          /\ op' = [NoOp EXCEPT !.name = "submit", !.remote = r.remote,
                                !.index = r.index, !.raised = r.raised,
                                !.ended = r.ended]
  /\ runs' = runs + 1
  /\ UNCHANGED <<gc, startup, sort_settings, sortVars>>

ClearSort ==
  /\ Idle
  /\ runs < MaxRuns
  /\ \E readOk \in ReadOutcomes :
       worksheet' = fetch_sheet_df(gc, readOk, sheet).ws
  /\ sort_settings' = ClearedSortSettings
  /\ df' = rendered_df(df, ClearedSortSettings)
  /\ op' = [NoOp EXCEPT !.name = "clear_sort"]
  /\ runs' = runs + 1
  /\ UNCHANGED <<gc, startup, sheet, last_saved_df, sortVars>>

ApplySort ==
  /\ Idle
  /\ runs < MaxRuns
  /\ \E readOk \in ReadOutcomes :
       worksheet' = fetch_sheet_df(gc, readOk, sheet).ws
  /\ \E choice \in SortChoices :
       /\ sort_settings' = choice
       /\ df' = rendered_df(df, choice)
  /\ op' = [NoOp EXCEPT !.name = "apply_sort"]
  /\ runs' = runs + 1
  /\ UNCHANGED <<gc, startup, sheet, last_saved_df, sortVars>>

(* The save handler up to the return of worksheet.clear(): the run reads    *)
(* the sheet, takes the editor's frame, sets the working table and clears   *)
(* the sheet.  When the clear returned, the run goes on in SaveUpdate.      *)
SaveEdits ==
  /\ Idle
  /\ runs < MaxRuns
  /\ \E readOk \in ReadOutcomes, edits \in EditChoices(display_df(df, sort_settings)) :
     \E clearOk \in WriteOutcomes(fetch_sheet_df(gc, readOk, sheet).ws) :
       LET ws == fetch_sheet_df(gc, readOk, sheet).ws
           edited_df == data_editor(display_df(df, sort_settings), edits)
           r == save_edits(edited_df, sort_settings, ws, sheet, last_saved_df, clearOk)
       IN /\ worksheet' = ws
          /\ df' = r.df
          /\ sheet' = r.sheet
          /\ last_saved_df' = r.last
          /\ op' = [NoOp EXCEPT !.name = "save", !.remote = r.remote,
                                !.raised = r.raised, !.edited = edited_df,
                                !.added = AddedLabels(edited_df, edits)]
  /\ runs' = runs + 1
  /\ UNCHANGED <<gc, startup, sort_settings, sortVars>>

(* The same run after worksheet.clear() returned: worksheet.update(values), *)
(* st.success and the last_saved_df assignment.                             *)
SaveUpdate ==
  /\ ~Idle
  /\ \E updateOk \in BOOLEAN :
     \E ended \in StopOutcomes(updateOk) :
       LET r == save_edits_update(df, sheet, last_saved_df, updateOk, ended)
       IN /\ sheet' = r.sheet
          /\ last_saved_df' = r.last
          /\ op' = [op EXCEPT !.remote = r.remote, !.raised = r.raised,
                              !.ended = r.ended]
  /\ UNCHANGED <<gc, worksheet, startup, df, sort_settings, runs, sortVars>>

(* A rerun of the script with no form submitted (download button click).    *)
Rerun ==
  /\ Idle
  /\ runs < MaxRuns
  /\ \E readOk \in ReadOutcomes :
       worksheet' = fetch_sheet_df(gc, readOk, sheet).ws
  /\ df' = rendered_df(df, sort_settings)
  /\ op' = [NoOp EXCEPT !.name = "rerun"]
  /\ runs' = runs + 1
  /\ UNCHANGED <<gc, startup, sheet, last_saved_df, sort_settings, sortVars>>

Next == Submit \/ ClearSort \/ ApplySort \/ SaveEdits \/ SaveUpdate \/ Rerun

Spec == Init /\ [][Next]_vars

(* ------------------------------ sort spec ------------------------------ *)
(* _apply_sort as a pure function: Init draws a table and a key             *)
(* configuration, SortStep applies the function.                            *)
SortRowCells ==
  {[timestamp |-> ts, category |-> Str(cat), item |-> EmptyStr,
    value |-> val, unit |-> EmptyStr, note |-> EmptyStr] :
     ts \in {Str(TS1), Str(TS2), NoneCell},
     val \in {Num(9), Str(TXT10), Str(TXTX)},
     cat \in {TXT9, TXT10}}

ScenarioTable ==
  [columns |-> COLUMNS,
   rows |-> <<[idx |-> 0,
               c |-> [timestamp |-> Str(TS1), category |-> Str(TXTA), item |-> Str(TXTX),
                      value |-> Num(5), unit |-> EmptyStr, note |-> EmptyStr]],
              [idx |-> 1,
               c |-> [timestamp |-> Str(TS2), category |-> Str(TXTX), item |-> Str(TXTA),
                      value |-> Num(3), unit |-> EmptyStr, note |-> EmptyStr]]>>]

SortTables ==
  {ScenarioTable} \cup
  UNION {{[columns |-> COLUMNS,
           rows |-> [i \in 1..n |-> [idx |-> i - 1, c |-> cs[i]]]] :
            cs \in [1..n -> SortRowCells]} : n \in 0..MaxSortRows}

SortKeys == {NoKey, "timestamp", "value", "category"}

SortConfigs ==
  {[sort1 |-> k1, asc1 |-> a1, sort2 |-> k2, asc2 |-> a2, save_in_sorted_order |-> TRUE] :
     k1 \in SortKeys, a1 \in BOOLEAN, k2 \in SortKeys, a2 \in BOOLEAN}

InitSort ==
  /\ gc = FALSE
  /\ worksheet = FALSE
  /\ startup = FALSE
  /\ sheet = ClearedSheet
  /\ df = EmptyFrame
  /\ last_saved_df = EmptyFrame
  /\ sort_settings = DefaultSortSettings
  /\ op = NoOp
  /\ runs = 0
  /\ sortIn \in SortTables
  /\ sortCfg \in SortConfigs
  /\ sortOut = EmptyFrame

SortStep ==
  /\ op.name = "init"
  /\ sortOut' = display_df(sortIn, sortCfg)
  /\ sortIn' = rendered_df(sortIn, sortCfg)
  /\ op' = [NoOp EXCEPT !.name = "sorted"]
  /\ UNCHANGED <<gc, worksheet, startup, sheet, df, last_saved_df, sort_settings, runs,
                 sortCfg>>

NextSort == SortStep

SpecSort == InitSort /\ [][NextSort]_vars

(* ------------------------------ properties ---------------------------- *)
PosOf(frame, label) == CHOOSE i \in DOMAIN frame.rows : frame.rows[i].idx = label

RowSet(frame) == {frame.rows[i] : i \in DOMAIN frame.rows}

IsSaveStep == runs' # runs /\ op'.name = "save"

IsSubmitStep == runs' # runs /\ op'.name = "submit"

(* A step of a run: it starts a run or carries on the one in progress.      *)
IsRunStep == runs' # runs \/ op' # op

RowText(row) == [j \in DOMAIN COLUMNS |-> AsTypeStr(FillNa(row.c[COLUMNS[j]]))]

(* C1: a save with save_in_sorted_order = FALSE leaves the rows that were   *)
(* in the working table before the edit in the relative order they had in   *)
(* the working table, and puts every row added in the editor after them.    *)
C1_RestoresWorkingOrder ==
  [][(IsSaveStep /\ ~sort_settings.save_in_sorted_order) =>
       /\ \A i, j \in DOMAIN df'.rows :
            (i < j /\ df'.rows[i].idx \notin op'.added /\ df'.rows[j].idx \notin op'.added)
              => PosOf(df, df'.rows[i].idx) < PosOf(df, df'.rows[j].idx)
       /\ \A i, j \in DOMAIN df'.rows :
            (df'.rows[i].idx \in op'.added /\ df'.rows[j].idx \notin op'.added)
              => j < i]_vars

(* C2: after a save with save_in_sorted_order = TRUE the working table is   *)
(* exactly the edited frame, same rows in the same order, whatever the      *)
(* outcome of the remote overwrite.                                         *)
C2_PersistKeepsEditedOrder ==
  (op.name = "save" /\ sort_settings.save_in_sorted_order) => df = op.edited

C2_Witness ==
  /\ op.name = "save"
  /\ sort_settings.save_in_sorted_order
  /\ op.remote = "update_failed"
  /\ Len(df.rows) >= 2
  /\ df.rows[1].idx > df.rows[2].idx

(* C3 as stated: a submit puts exactly one record at the front, keeps the   *)
(* previous records behind it in order, and always attempts a remote insert *)
(* at row index 2.                                                          *)
C3_Original ==
  [][IsSubmitStep =>
       /\ Len(df'.rows) = Len(df.rows) + 1
       /\ Tail(Cells(df')) = Cells(df)
       /\ op'.remote \in {"ok", "insert_failed"}
       /\ op'.index = 2]_vars

(* C3 amended: a submit puts exactly one record at the front and keeps the  *)
(* previous records behind it in order; when the run has a worksheet handle *)
(* a remote insert of that record is attempted at row index 2 (and on       *)
(* success the record is the first data row of the sheet); when it has no   *)
(* handle no remote insert is attempted.                                    *)
C3_SubmitInsertsAtFront ==
  [][IsSubmitStep =>
       /\ Len(df'.rows) = Len(df.rows) + 1
       /\ Tail(Cells(df')) = Cells(df)
       /\ df'.rows[1].c \in SubmitRows
       /\ worksheet' => (op'.remote \in {"ok", "insert_failed"} /\ op'.index = 2)
       /\ ~worksheet' => (op'.remote = "skipped" /\ sheet' = sheet)
       /\ op'.remote = "ok" =>
            /\ sheet'.header = sheet.header
            /\ sheet'.rows = <<RowText(df'.rows[1])>> \o sheet.rows]_vars

C3_Witness ==
  /\ op.name = "submit"
  /\ op.remote = "ok"
  /\ Len(df.rows) >= 3
  /\ df.rows[2].c # df.rows[3].c
  /\ display_df(df, sort_settings) # df
  /\ Len(sheet.rows) >= 3

(* C4: after a save whose remote write succeeds the sheet is exactly the    *)
(* schema header followed by the text of every working-table row, in        *)
(* working-table order.                                                     *)
C4_SaveOverwritesSheet ==
  (op.name = "save" /\ op.remote = "ok") =>
     /\ sheet.header = COLUMNS
     /\ Len(sheet.rows) = Len(df.rows)
     /\ \A i \in DOMAIN df.rows : sheet.rows[i] = RowText(df.rows[i])

C4_Witness ==
  /\ op.name = "save"
  /\ op.remote = "ok"
  /\ ~sort_settings.save_in_sorted_order
  /\ Len(df.rows) >= 2
  /\ \E i \in DOMAIN df.rows : df.rows[i].c["timestamp"] = NoneCell

(* C5: when the remote write of a submit or a save fails, or the run has no *)
(* worksheet handle, no exception escapes, the working table keeps the      *)
(* local change, and sort_settings and last_saved_df are unchanged.         *)
C5_FailureKeepsLocalChange ==
  [][(IsRunStep /\
      op'.remote \in {"insert_failed", "clear_failed", "update_failed", "skipped"}) =>
       /\ ~op'.raised
       /\ sort_settings' = sort_settings
       /\ last_saved_df' = last_saved_df
       /\ op'.name = "submit" =>
            /\ Len(df'.rows) = Len(df.rows) + 1
            /\ Tail(Cells(df')) = Cells(df)
            /\ df'.rows[1].c \in SubmitRows
       /\ op'.name = "save" =>
            /\ RowSet(df') = RowSet(op'.edited)
            /\ Len(df'.rows) = Len(op'.edited.rows)
            /\ sort_settings.save_in_sorted_order => df' = op'.edited]_vars

C5_Witness ==
  /\ op.name = "save"
  /\ op.remote = "clear_failed"
  /\ df # last_saved_df
  /\ Len(df.rows) >= 1
  /\ runs >= 2

(* C6: every record of the working table has exactly the schema's columns,  *)
(* in schema order; a column missing from the loaded sheet holds the empty  *)
(* string in every loaded record.                                           *)
C6_SchemaColumns ==
  /\ df.columns = COLUMNS
  /\ \A i \in DOMAIN df.rows : DOMAIN df.rows[i].c = Range(COLUMNS)
  /\ (runs = 0 /\ startup) =>
       \A i \in DOMAIN df.rows : \A name \in Range(COLUMNS) :
          name \notin Range(sheet.header) => df.rows[i].c[name] = EmptyStr

C6_Witness ==
  /\ sheet.header = HeaderExtra
  /\ startup
  /\ op.name = "save"
  /\ Len(df.rows) >= 2

C6_WitnessPadded ==
  /\ sheet.header = HeaderShort
  /\ startup
  /\ runs = 0
  /\ Len(df.rows) >= 1

(* C10 as stated: when the session starts without a worksheet handle, the   *)
(* working table starts empty and every later remote operation is skipped.  *)
C10_Original ==
  ~startup =>
     /\ runs = 0 => df = EmptyFrame
     /\ op.remote \in {"none", "skipped"}

(* C10 amended: when the session starts without a worksheet handle the      *)
(* working table starts with zero rows and the schema's columns and no      *)
(* exception escapes; with no client every later remote operation is        *)
(* skipped, and after a failed startup read every later run whose own read  *)
(* fails skips its remote operation and leaves the sheet alone; submit and  *)
(* save still update the working table.                                     *)
C10_UnreachableAtStartup ==
  /\ [](~startup =>
          /\ runs = 0 => (df = EmptyFrame /\ last_saved_df = EmptyFrame)
          /\ ~op.raised
          /\ ~gc => (~worksheet /\ op.remote \in {"none", "skipped"})
          /\ ~worksheet => op.remote \in {"none", "skipped"})
  /\ [][(~startup /\ runs' # runs /\ ~worksheet') =>
          /\ sheet' = sheet
          /\ op'.name = "submit" =>
               (Len(df'.rows) = Len(df.rows) + 1 /\ Tail(Cells(df')) = Cells(df))
          /\ op'.name = "save" => RowSet(df') = RowSet(op'.edited)]_vars

C10_Witness ==
  /\ ~startup
  /\ gc
  /\ ~worksheet
  /\ op.name = "save"
  /\ op.remote = "skipped"
  /\ Len(df.rows) >= 2

(* C11: after a successful remote write to a sheet laid out by the schema,  *)
(* the rows of last_saved_df are exactly the data rows the sheet holds.     *)
C11_SnapshotIsRemoteContent ==
  (op.remote = "ok" /\ sheet.header = COLUMNS) =>
     /\ Len(last_saved_df.rows) = Len(sheet.rows)
     /\ \A i \in DOMAIN last_saved_df.rows :
          i \in DOMAIN sheet.rows /\ sheet.rows[i] = RowText(last_saved_df.rows[i])

(* The same statement for sessions whose first read succeeded.              *)
C11_SnapshotAfterLoadedStart == startup => C11_SnapshotIsRemoteContent

(* C12: a run that applies or clears the sort settings sets all five       *)
(* fields of sort_settings and leaves the working table, last_saved_df and  *)
(* the sheet as they were; computing display_df leaves the working table   *)
(* as it was, and the working table changes only in a submit or a save.    *)
C12_SortLeavesTablesAlone ==
  /\ [][(runs' # runs /\ op'.name \in {"apply_sort", "clear_sort"}) =>
          /\ df' = df
          /\ last_saved_df' = last_saved_df
          /\ sheet' = sheet
          /\ op'.remote = "none"
          /\ op'.name = "clear_sort" => sort_settings' = ClearedSortSettings
          /\ op'.name = "apply_sort" => sort_settings' \in SortChoices]_vars
  /\ [][df' # df => (runs' # runs /\ op'.name \in {"submit", "save"})]_vars

C12_Witness ==
  /\ op.name = "apply_sort"
  /\ runs >= 2
  /\ sort_settings.sort1 = "value"
  /\ sort_settings # DefaultSortSettings
  /\ Len(df.rows) >= 2
  /\ display_df(df, sort_settings) # df
  /\ df # last_saved_df

(* --------------------------- sort properties --------------------------- *)
SortKeysOf(cfg) == ActiveKeys(COLUMNS, cfg.sort1, cfg.asc1, cfg.sort2, cfg.asc2)

KeyOf(row, keys, k) == _mk_sort_columns(row, keys[k].col)

TieUpTo(x, y, keys, n) == \A k \in 1..n : KeyTie(KeyOf(x, keys, k), KeyOf(y, keys, k))

DirLess(a, b, asc) == IF asc THEN KeyLess(a, b) ELSE KeyLess(b, a)

IsPermutation(out, in) == Len(out.rows) = Len(in.rows) /\ RowSet(out) = RowSet(in)

(* C7: the sort output is a permutation of the input in which any two       *)
(* records that tie on every active key keep their input order, for every   *)
(* key configuration.                                                       *)
C7_SortIsStable ==
  op.name = "sorted" =>
    LET keys == SortKeysOf(sortCfg) IN
    /\ IsPermutation(sortOut, sortIn)
    /\ \A a, b \in DOMAIN sortIn.rows :
         (a < b /\ TieUpTo(sortIn.rows[a], sortIn.rows[b], keys, Len(keys)))
           => PosOf(sortOut, sortIn.rows[a].idx) < PosOf(sortOut, sortIn.rows[b].idx)

C7_Witness ==
  /\ op.name = "sorted"
  /\ Len(SortKeysOf(sortCfg)) = 2
  /\ ~sortCfg.asc1
  /\ \E a, b \in DOMAIN sortIn.rows :
       /\ a < b
       /\ sortIn.rows[a].c # sortIn.rows[b].c
       /\ TieUpTo(sortIn.rows[a], sortIn.rows[b], SortKeysOf(sortCfg), 2)
       /\ PosOf(sortOut, sortIn.rows[a].idx) < PosOf(sortOut, sortIn.rows[b].idx)

(* C8 as stated: sorting by timestamp or value puts every record whose key  *)
(* is unparsable or empty before all records with a valid key.              *)
C8_Original ==
  (op.name = "sorted" /\ sortCfg.sort1 \in {"timestamp", "value"}) =>
    LET keys == SortKeysOf(sortCfg) IN
    \A i, j \in DOMAIN sortOut.rows :
      (KeyOf(sortOut.rows[i], keys, 1).null /\ ~KeyOf(sortOut.rows[j], keys, 1).null)
        => i < j

(* C8 amended: for a timestamp or value key, ascending or descending, a     *)
(* record whose key is unparsable or empty sorts after every record with a  *)
(* valid key (among the records that tie on the keys of higher priority).   *)
C8_NullKeysSortLast ==
  op.name = "sorted" =>
    LET keys == SortKeysOf(sortCfg) IN
    \A k \in DOMAIN keys :
      keys[k].col \in {"timestamp", "value"} =>
        \A i, j \in DOMAIN sortOut.rows :
          (/\ TieUpTo(sortOut.rows[i], sortOut.rows[j], keys, k - 1)
           /\ KeyOf(sortOut.rows[i], keys, k).null
           /\ ~KeyOf(sortOut.rows[j], keys, k).null)
            => j < i

C8_Witness ==
  /\ op.name = "sorted"
  /\ sortCfg.sort1 = "value"
  /\ sortCfg.asc1
  /\ sortCfg.sort2 = "timestamp"
  /\ ~sortCfg.asc2
  /\ Len(sortIn.rows) >= 2
  /\ sortIn.rows[1].c["value"] = Str(TXTX)
  /\ sortIn.rows[2].c["value"] = Num(9)
  /\ sortOut.rows[1].c["value"] = Num(9)

(* C9: with two distinct keys the output is ordered by the primary key in   *)
(* its direction and, among records that tie on it, by the secondary key in *)
(* its own direction; value compares numerically (9 before 10, 3 before 5), *)
(* timestamp chronologically, every other column as text ("10" before "9"). *)
C9_TwoKeyOrder ==
  op.name = "sorted" =>
    LET keys == SortKeysOf(sortCfg)
        out == sortOut.rows
    IN /\ Len(keys) = 2 =>
            \A i, j \in DOMAIN out :
              i < j =>
                LET p1 == KeyOf(out[i], keys, 1)
                    p2 == KeyOf(out[j], keys, 1)
                    s1 == KeyOf(out[i], keys, 2)
                    s2 == KeyOf(out[j], keys, 2)
                IN /\ (~p1.null /\ ~p2.null) => ~DirLess(p2, p1, keys[1].asc)
                   /\ (KeyTie(p1, p2) /\ ~s1.null /\ ~s2.null) => ~DirLess(s2, s1, keys[2].asc)
       /\ sortCfg.sort1 = "value" =>
            \A i, j \in DOMAIN out :
              (out[i].c["value"] = Num(9) /\ out[j].c["value"] = Str(TXT10))
                => (i < j <=> sortCfg.asc1)
       /\ sortCfg.sort1 = "category" =>
            \A i, j \in DOMAIN out :
              (out[i].c["category"] = Str(TXT10) /\ out[j].c["category"] = Str(TXT9))
                => (i < j <=> sortCfg.asc1)
       /\ sortCfg.sort1 = "timestamp" =>
            \A i, j \in DOMAIN out :
              (out[i].c["timestamp"] = Str(TS1) /\ out[j].c["timestamp"] = Str(TS2))
                => (i < j <=> sortCfg.asc1)
       /\ (sortIn = ScenarioTable /\ sortCfg.sort1 = "value" /\ sortCfg.asc1) =>
            (out[1].idx = 1 /\ out[2].idx = 0)

C9_Witness ==
  /\ op.name = "sorted"
  /\ sortCfg.sort1 = "category"
  /\ sortCfg.asc1
  /\ sortCfg.sort2 = "value"
  /\ ~sortCfg.asc2
  /\ Len(sortOut.rows) >= 2
  /\ sortOut # sortIn
  /\ sortOut.rows[1].c["category"] = Str(TXT10)
  /\ sortOut.rows[2].c["category"] = Str(TXT10)
  /\ sortOut.rows[1].c["value"] = Str(TXT10)
  /\ sortOut.rows[2].c["value"] = Num(9)

C9_WitnessScenario ==
  /\ op.name = "sorted"
  /\ sortIn = ScenarioTable
  /\ sortCfg.sort1 = "value"
  /\ sortCfg.asc1
  /\ sortOut.rows[1].c["value"] = Num(3)

====
